---- MODULE Spec2Model ----
(***************************************************************************)
(* A model of the caption pipeline of themoneygps:                         *)
(*   convert_vtt_to_txt.py  - clean_vtt_to_txt (the caption normalizer),    *)
(*                            get_base_filename_without_known_extensions,  *)
(*                            main (the normalization batch driver)        *)
(*   create_search_index.py - extract_info_from_filename, main (the index   *)
(*                            build)                                        *)
(* A Python str is a sequence of one-character strings, so that trimming,  *)
(* prefix tests, the regular expressions and the final whitespace collapse *)
(* are computed character by character as the code computes them.          *)
(***************************************************************************)
EXTENDS Integers, Sequences, FiniteSets, TLC

VARIABLES
    \* ---- clean_vtt_to_txt (one call) ----
    file_lines,          \* what f.readlines() would give for the file
    readable,            \* whether open()/readlines() succeeds
    lines,               \* the local `lines`
    idx,                 \* position of the for loop over lines (next line to take)
    cleaned_segments,    \* the local `cleaned_segments`
    in_style_block,      \* the local `in_style_block`
    last_added_segment,  \* the local `last_added_segment`: <<>> is None, <<s>> is the str s
    full_text,           \* the returned str (meaningful when pc = "returned")
    recleaned,           \* the result of a second call on the one-line document [full_text]
    pc,                  \* "start" | "loop" | "returned" | "failed" | "recleaned" | "idle"
    \* ---- get_base_filename_without_known_extensions (one call) ----
    filename,            \* the argument
    base_name,           \* the returned str (meaningful when name_pc = "returned")
    name_pc,             \* "start" | "returned" | "idle"
    \* ---- convert_vtt_to_txt.main ----
    input_dir_exists,    \* os.path.isdir(input_dir)
    listing,             \* os.listdir(input_dir), in the order it is given
    source,              \* the files of input_dir: name -> [readable, lines]
    output_dir_exists,   \* whether clean_txt exists
    out_files,           \* the files of clean_txt: name -> content
    total_files, converted_files, skipped_files,
    pos,                 \* position of the for loop over the listing (next entry to take)
    cleaned_text,        \* the last value returned by clean_vtt_to_txt: <<>> is None, <<s>> is s
    opened,              \* the names clean_vtt_to_txt was called on, in order
    log,                 \* what the run printed: <<kind, name>> entries
    exit_status,         \* "none" until the process ends, then "0" or "1"
    main_pc,             \* "start" | "loop" | "done" | "aborted" | "idle"
    \* ---- create_search_index.main ----
    clean_dir_exists,    \* os.path.isdir(input_dir)
    artifact_listing,    \* os.listdir(input_dir), in the order it is given
    artifacts,           \* the files of clean_txt: name -> [readable, text]
    search_data,         \* the local `search_data`
    file_count,          \* the local `file_count`
    artifact_pos,        \* position of the for loop over the listing (next entry to take)
    index_file,          \* search_data.json: [state, data], state "absent" | "complete" | "partial"
    prior_index,         \* search_data.json as the run found it
    index_log,           \* what the run printed: <<kind, name>> entries
    index_pc,            \* "start" | "loop" | "write" | "done" | "aborted" | "idle"
    \* ---- extract_info_from_filename ----
    info_filename,       \* the argument `filename`
    info_date,           \* the first element of the returned pair
    info_title,          \* the second element of the returned pair
    info_pc              \* "start" | "returned" | "idle"

normVars == <<file_lines, readable, lines, idx, cleaned_segments, in_style_block,
              last_added_segment, full_text, recleaned, pc>>

nameVars == <<filename, base_name, name_pc>>

mainVars == <<input_dir_exists, listing, source, output_dir_exists, out_files, total_files,
              converted_files, skipped_files, pos, cleaned_text, opened, log, exit_status, main_pc>>

indexVars == <<clean_dir_exists, artifact_listing, artifacts, search_data, file_count,
               artifact_pos, index_file, prior_index, index_log, index_pc>>

infoVars == <<info_filename, info_date, info_title, info_pc>>

vars == <<normVars, nameVars, mainVars, indexVars, infoVars>>

-----------------------------------------------------------------------------
(* Bounds of the model *)

\* longest free document (any lines of LineSet) given to clean_vtt_to_txt
MaxLines == 3
\* most cue blocks of a rolling-caption document
MaxBlocks == 3

\* longest generated one-line document over TagAlphabet
MaxTagLen == 4
\* most suffix tokens of a generated file name
MaxSuffixes == 3
\* most entries of the transcripts directory
MaxFiles == 3
\* most entries of the clean_txt directory
MaxArtifacts == 2

-----------------------------------------------------------------------------
(* Python str primitives *)

\* str.strip() and the regular expression class \s agree on these characters
Whitespace == {" ", "\t", "\n"}

IsSpace(c) == c \in Whitespace

\* the regular expression class \d
IsDigit(c) == c \in {"0", "1", "2", "3", "4", "5", "6", "7", "8", "9"}

UpperCase == <<"A", "B", "C", "D", "E", "F", "G", "H", "I", "J", "K", "L", "M",
               "N", "O", "P", "Q", "R", "S", "T", "U", "V", "W", "X", "Y", "Z">>

LowerCase == <<"a", "b", "c", "d", "e", "f", "g", "h", "i", "j", "k", "l", "m",
               "n", "o", "p", "q", "r", "s", "t", "u", "v", "w", "x", "y", "z">>

UpperToLower == [c \in {UpperCase[k] : k \in 1..26} |->
                   LowerCase[CHOOSE k \in 1..26 : UpperCase[k] = c]]

\* str.lower()
Lower(s) == [k \in 1..Len(s) |-> IF s[k] \in DOMAIN UpperToLower THEN UpperToLower[s[k]] ELSE s[k]]

\* str.startswith(p)
StartsWith(s, p) == Len(p) <= Len(s) /\ SubSeq(s, 1, Len(p)) = p

\* str.endswith(p)
EndsWith(s, p) == Len(p) <= Len(s) /\ SubSeq(s, Len(s) - Len(p) + 1, Len(s)) = p

\* the first position >= p of s that holds no whitespace (Len(s)+1 when there is none)
SkipWs(s, p) ==
    IF \E k \in p..Len(s) : ~IsSpace(s[k])
    THEN CHOOSE k \in p..Len(s) : ~IsSpace(s[k]) /\ \A m \in p..(k - 1) : IsSpace(s[m])
    ELSE Len(s) + 1

\* the last position of s that holds no whitespace (0 when there is none)
LastNonWs(s) ==
    IF \E k \in 1..Len(s) : ~IsSpace(s[k])
    THEN CHOOSE k \in 1..Len(s) : ~IsSpace(s[k]) /\ \A m \in (k + 1)..Len(s) : IsSpace(s[m])
    ELSE 0

\* str.strip()
Strip(s) == SubSeq(s, SkipWs(s, 1), LastNonWs(s))

\* the end of the match of <[^>]+> that starts at p (s[p] = "<"), 0 when there is none:
\* the first ">" after p, provided at least one other character lies between
TagEnd(s, p) ==
    IF \E k \in (p + 1)..Len(s) : s[k] = ">"
    THEN LET e == CHOOSE k \in (p + 1)..Len(s) : s[k] = ">" /\ \A m \in (p + 1)..(k - 1) : s[m] # ">"
         IN  IF e >= p + 2 THEN e ELSE 0
    ELSE 0

RECURSIVE SubTags(_, _)
\* re.sub(r"<[^>]+>", "", s) from position p on: leftmost non-overlapping matches
SubTags(s, p) ==
    IF p > Len(s) THEN <<>>
    ELSE IF s[p] = "<" /\ TagEnd(s, p) > 0 THEN SubTags(s, TagEnd(s, p) + 1)
    ELSE <<s[p]>> \o SubTags(s, p + 1)

RECURSIVE SubWs(_, _)
\* re.sub(r"\s+", " ", s) from position p on
SubWs(s, p) ==
    IF p > Len(s) THEN <<>>
    ELSE IF IsSpace(s[p]) THEN <<" ">> \o SubWs(s, SkipWs(s, p))
    ELSE <<s[p]>> \o SubWs(s, p + 1)

RECURSIVE JoinWithSpace(_)
\* " ".join(segs)
JoinWithSpace(segs) ==
    IF segs = <<>> THEN <<>>
    ELSE IF Len(segs) = 1 THEN segs[1]
    ELSE segs[1] \o <<" ">> \o JoinWithSpace(Tail(segs))

-----------------------------------------------------------------------------
(* clean_vtt_to_txt: the classification of one trimmed line *)

WEBVTT == <<"W", "E", "B", "V", "T", "T">>
KindPrefix == <<"k", "i", "n", "d", ":">>
LanguagePrefix == <<"l", "a", "n", "g", "u", "a", "g", "e", ":">>
NOTE == <<"N", "O", "T", "E">>
STYLE == <<"S", "T", "Y", "L", "E">>

\* a slip: the header token tested as a prefix instead of by equality
IsHeaderLine_PrefixToken(line) ==
    \/ line = <<>>
    \/ StartsWith(line, WEBVTT)
    \/ StartsWith(Lower(line), KindPrefix)
    \/ StartsWith(Lower(line), LanguagePrefix)

\* line 24: not line or line == "WEBVTT" or kind:/language: (case-insensitive)
IsHeaderLine(line) ==
    \/ line = <<>>
    \/ line = WEBVTT
    \/ StartsWith(Lower(line), KindPrefix)
    \/ StartsWith(Lower(line), LanguagePrefix)

\* line 27
IsNoteLine(line) == StartsWith(line, NOTE)

\* a slip: only the line that is STYLE and nothing more
IsStyleLine_Exact(line) == line = STYLE

\* line 30
IsStyleLine(line) == StartsWith(line, STYLE)

\* \d{2}:\d{2}:\d{2}\.\d{3} matched at position p
TimestampAt(s, p) ==
    /\ p + 11 <= Len(s)
    /\ IsDigit(s[p]) /\ IsDigit(s[p + 1]) /\ s[p + 2] = ":"
    /\ IsDigit(s[p + 3]) /\ IsDigit(s[p + 4]) /\ s[p + 5] = ":"
    /\ IsDigit(s[p + 6]) /\ IsDigit(s[p + 7]) /\ s[p + 8] = "."
    /\ IsDigit(s[p + 9]) /\ IsDigit(s[p + 10]) /\ IsDigit(s[p + 11])

\* a slip: the pattern anchored at the end, so that cue settings after the times defeat it
IsTimestampLine_NoSettings(line) ==
    /\ TimestampAt(line, 1)
    /\ LET a == SkipWs(line, 13)
       IN  /\ a > 13
           /\ a + 2 <= Len(line)
           /\ line[a] = "-" /\ line[a + 1] = "-" /\ line[a + 2] = ">"
           /\ LET b == SkipWs(line, a + 3)
              IN  b > a + 3 /\ TimestampAt(line, b) /\ Len(line) = b + 11

\* line 39: re.match(r"^\d{2}:\d{2}:\d{2}\.\d{3}\s+-->\s+\d{2}:\d{2}:\d{2}\.\d{3}", line)
IsTimestampLine(line) ==
    /\ TimestampAt(line, 1)
    /\ LET a == SkipWs(line, 13)
       IN  /\ a > 13
           /\ a + 2 <= Len(line)
           /\ line[a] = "-" /\ line[a + 1] = "-" /\ line[a + 2] = ">"
           /\ LET b == SkipWs(line, a + 3)
              IN  b > a + 3 /\ TimestampAt(line, b)

\* a slip: the pattern written \d\d+, so that a one-digit sequence number is cue text
IsSequenceLine_TwoDigits(line) == Len(line) >= 2 /\ \A k \in 1..Len(line) : IsDigit(line[k])

\* line 42: re.match(r"^\d+$", line)
IsSequenceLine(line) == line # <<>> /\ \A k \in 1..Len(line) : IsDigit(line[k])

RECURSIVE SubFirstTag(_, _)
\* re.sub with count=1: only the leftmost match is removed
SubFirstTag(s, p) ==
    IF p > Len(s) THEN <<>>
    ELSE IF s[p] = "<" /\ TagEnd(s, p) > 0 THEN SubSeq(s, TagEnd(s, p) + 1, Len(s))
    ELSE <<s[p]>> \o SubFirstTag(s, p + 1)

\* a slip: only the first tag of the line removed
RemoveTags_FirstOnly(line) == Strip(SubFirstTag(line, 1))

\* line 47: re.sub(r"<[^>]+>", "", line).strip()
RemoveTags(line) == Strip(SubTags(line, 1))

\* a slip: the comparison with the last added segment left out
ShouldAdd_NoDedup(current_segment, last) == current_segment # <<>>

\* a slip: the segments compared after their whitespace runs were collapsed
ShouldAdd_Collapsed(current_segment, last) ==
    current_segment # <<>> /\ (last = <<>> \/ SubWs(current_segment, 1) # SubWs(last[1], 1))

\* a slip: the segments compared without regard to case
ShouldAdd_IgnoreCase(current_segment, last) ==
    current_segment # <<>> /\ (last = <<>> \/ Lower(current_segment) # Lower(last[1]))

\* line 50: current_segment and current_segment != last_added_segment
ShouldAdd(current_segment, last) == current_segment # <<>> /\ last # <<current_segment>>

\* lines 20-52: one iteration of the for loop, on the raw line `raw`, from the locals
\* (isb, last, segs); gives the locals after the iteration
LoopBody(raw, isb, last, segs) ==
    LET line == Strip(raw)
        same == [in_style_block |-> isb, last_added_segment |-> last, cleaned_segments |-> segs]
    IN  IF IsHeaderLine(line) THEN same
        ELSE IF IsNoteLine(line) THEN same
        ELSE IF IsStyleLine(line) THEN [same EXCEPT !.in_style_block = TRUE]
        ELSE IF isb /\ line = <<>> THEN [same EXCEPT !.in_style_block = FALSE]
        ELSE IF isb THEN same
        ELSE IF IsTimestampLine(line) THEN same
        ELSE IF IsSequenceLine(line) THEN same
        ELSE LET current_segment == RemoveTags(line)
             IN  IF ShouldAdd(current_segment, last)
                 THEN [same EXCEPT !.cleaned_segments = Append(segs, current_segment),
                                   !.last_added_segment = <<current_segment>>]
                 ELSE same

\* a slip: the whitespace runs left as they are
JoinAndCollapse_NoCollapse(segs) == Strip(JoinWithSpace(segs))

\* lines 56-57: " ".join(cleaned_segments), then re.sub(r"\s+", " ", full_text).strip()
JoinAndCollapse(segs) == Strip(SubWs(JoinWithSpace(segs), 1))

RECURSIVE RunLoop(_, _, _)
\* lines 16-52 run to the end of `ls` from line k on, from the locals st
RunLoop(ls, k, st) ==
    IF k > Len(ls) THEN st
    ELSE RunLoop(ls, k + 1,
                 LoopBody(ls[k], st.in_style_block, st.last_added_segment, st.cleaned_segments))

\* lines 16-18: the locals before the loop
InitialLocals == [in_style_block |-> FALSE, last_added_segment |-> <<>>, cleaned_segments |-> <<>>]

\* clean_vtt_to_txt on a file that was read as the lines ls (lines 16-59)
CleanLines(ls) == JoinAndCollapse(RunLoop(ls, 1, InitialLocals).cleaned_segments)

-----------------------------------------------------------------------------
(* The caption documents the model feeds to clean_vtt_to_txt *)

L_blank == <<>>
L_kind == <<"K", "i", "n", "d", ":", " ", "c", "a", "p", "t", "i", "o", "n", "s">>
L_language == <<"L", "A", "N", "G", "U", "A", "G", "E", ":", " ", "e", "n">>
L_note == <<"N", "O", "T", "E", " ", "a">>
L_timing == <<"0", "0", ":", "0", "0", ":", "0", "0", ".", "0", "0", "0", " ", "-", "-", ">", " ",
              "0", "0", ":", "0", "0", ":", "0", "2", ".", "0", "0", "0">>
L_timing_attrs == <<"0", "0", ":", "0", "0", ":", "0", "2", ".", "0", "0", "0", " ", " ", "-", "-", ">", "\t",
                    "0", "0", ":", "0", "0", ":", "0", "4", ".", "0", "0", "0", " ",
                    "a", "l", "i", "g", "n", ":", "s", "t", "a", "r", "t">>
L_one == <<"1">>
L_hi == <<"h", "i">>
L_same_phrase == <<"s", "a", "m", "e", " ", "p", "h", "r", "a", "s", "e">>
L_markup == <<"<", "c", ">", "h", "e", "l", "l", "o", "<", "/", "c", ">", " ",
              "<", "v", " ", "S", "p", "e", "a", "k", "e", "r", ">", "w", "o", "r", "l", "d", "<", "/", "v", ">">>
L_hello_world == <<"h", "e", "l", "l", "o", " ", "w", "o", "r", "l", "d">>
L_padded_hi == <<" ", " ", "<", "i", ">", "h", "i", "<", "/", "i", ">", "\t">>
L_a_b == <<"a", " ", "b">>
L_a__b == <<"a", " ", " ", "b">>
L_tagged_header == <<"<", "c", ">", "W", "E", "B", "V", "T", "T", "<", "/", "c", ">">>
L_open == <<"a", " ", "<">>
L_close == <<"b", ">", " ", "c">>
L_css == <<":", ":", "c", "u", "e", " ", "{", " ", "}">>
L_a_tab_b == <<"a", "\t", " ", "b">>
L_style_word == <<"S", "T", "Y", "L", "E", "S", " ", "a">>
L_Hi == <<"H", "i">>

\* the lines of the free documents
LineSet == {L_blank, WEBVTT, L_kind, L_note, STYLE, L_timing, L_one, L_hi,
            L_a_b, L_a__b, L_tagged_header, L_open, L_close}

\* lines every one of which the loop discards by lines 24-28 or 39-43
DiscardLines == {L_blank, WEBVTT, L_kind, L_language, L_note, L_timing, L_timing_attrs, L_one}

\* cue-text lines of the rolling-caption documents
CueTexts == {L_same_phrase, L_hi, L_a_b, L_a__b, L_padded_hi, L_markup}

FreeDocs == UNION {[1..n -> LineSet] : n \in 0..MaxLines}

\* the digits-only sequence-number line of cue block k
SequenceNumber(k) == <<<<"1", "2", "3", "4", "5", "6", "7", "8", "9", "0">>[((k - 1) % 10) + 1]>>

\* which blocks carry a sequence-number line
NumberingPatterns == {"none", "all", "odd"}

Numbered(pat, k) == pat = "all" \/ (pat = "odd" /\ k % 2 = 1)

RECURSIVE CueBlocks(_, _, _, _)
\* blocks k..n, each: [sequence number] timing line, the text line T, a blank line
CueBlocks(T, k, n, pat) ==
    IF k > n THEN <<>>
    ELSE (IF Numbered(pat, k) THEN <<SequenceNumber(k)>> ELSE <<>>)
         \o <<(IF k % 2 = 1 THEN L_timing ELSE L_timing_attrs), T, L_blank>>
         \o CueBlocks(T, k + 1, n, pat)

CueDoc(T, n, pat) == CueBlocks(T, 1, n, pat)

CueDocs == {CueDoc(T, n, pat) : T \in CueTexts, n \in 1..MaxBlocks, pat \in NumberingPatterns}

\* the documents of section 8 of the specification, and of the header lines
Doc_header_hi == <<WEBVTT, L_one, L_timing, L_hi>>
Doc_markup == <<L_markup>>
Doc_metadata == <<WEBVTT, L_kind, L_language, L_blank, L_note, L_blank, L_one, L_timing_attrs, L_padded_hi>>
Doc_style == <<WEBVTT, L_blank, STYLE, L_css, L_blank, L_timing, L_hi>>
Doc_aba == <<L_timing, L_hi, L_timing, L_a_b, L_timing, L_hi, L_hi>>
Doc_tabbed == <<L_timing, L_a_tab_b, L_timing, L_padded_hi>>
Doc_style_word == <<L_timing, L_hi, L_timing, L_style_word, L_timing, L_a_b>>
Doc_case == <<L_one, L_timing, L_markup, L_blank, L_hi, L_Hi, L_hi, L_markup, L_hello_world>>

ExampleDocs == {Doc_header_hi, Doc_markup, Doc_metadata, Doc_style, Doc_aba, Doc_tabbed, Doc_style_word,
                Doc_case}

\* one-line documents over a small alphabet, for the tag pattern
TagAlphabet == {"<", ">", "a", " "}

TagDocs == {<<s>> : s \in UNION {[1..n -> TagAlphabet] : n \in 1..MaxTagLen}}

Docs == FreeDocs \cup CueDocs \cup ExampleDocs \cup TagDocs

\* f.readlines() keeps each line's terminator
ReadLinesOf(doc) == [k \in 1..Len(doc) |-> doc[k] \o <<"\n">>]

-----------------------------------------------------------------------------
(* clean_vtt_to_txt as a process: one action per step of the call *)

InitNorm ==
    /\ file_lines \in {ReadLinesOf(d) : d \in Docs}
    /\ readable \in BOOLEAN
    /\ lines = <<>>
    /\ idx = 1
    /\ cleaned_segments = <<>>
    /\ in_style_block = FALSE
    /\ last_added_segment = <<>>
    /\ full_text = <<>>
    /\ recleaned = <<>>
    /\ pc = "start"

\* lines 8-18: read the file; on an exception print and return None
ReadFile ==
    /\ pc = "start"
    /\ IF readable
       THEN /\ lines' = file_lines
            /\ pc' = "loop"
       ELSE /\ lines' = <<>>
            /\ pc' = "failed"
    /\ UNCHANGED <<file_lines, readable, idx, cleaned_segments, in_style_block,
                   last_added_segment, full_text, recleaned>>
    /\ UNCHANGED <<nameVars, mainVars, indexVars, infoVars>>

\* lines 20-52: one iteration of the loop
ProcessLine ==
    /\ pc = "loop"
    /\ idx <= Len(lines)
    /\ LET after == LoopBody(lines[idx], in_style_block, last_added_segment, cleaned_segments)
       IN  /\ in_style_block' = after.in_style_block
           /\ last_added_segment' = after.last_added_segment
           /\ cleaned_segments' = after.cleaned_segments
    /\ idx' = idx + 1
    /\ UNCHANGED <<file_lines, readable, lines, full_text, recleaned, pc>>
    /\ UNCHANGED <<nameVars, mainVars, indexVars, infoVars>>

\* lines 55-59: join, collapse, return
ReturnText ==
    /\ pc = "loop"
    /\ idx > Len(lines)
    /\ full_text' = JoinAndCollapse(cleaned_segments)
    /\ pc' = "returned"
    /\ UNCHANGED <<file_lines, readable, lines, idx, cleaned_segments, in_style_block,
                   last_added_segment, recleaned>>
    /\ UNCHANGED <<nameVars, mainVars, indexVars, infoVars>>

\* a second call of clean_vtt_to_txt, on a file that holds the returned text as its one line
CleanAgain ==
    /\ pc = "returned"
    /\ recleaned' = CleanLines(<<full_text>>)
    /\ pc' = "recleaned"
    /\ UNCHANGED <<file_lines, readable, lines, idx, cleaned_segments, in_style_block,
                   last_added_segment, full_text>>
    /\ UNCHANGED <<nameVars, mainVars, indexVars, infoVars>>

NextNorm == ReadFile \/ ProcessLine \/ ReturnText \/ CleanAgain

-----------------------------------------------------------------------------
(* get_base_filename_without_known_extensions *)

DotVtt == <<".", "v", "t", "t">>
DotTxt == <<".", "t", "x", "t">>

\* line 67
known_extensions == <<DotVtt>>

\* line 69
known_lang_codes == <<<<".", "e", "n">>, <<".", "e", "s">>, <<".", "f", "r">>, <<".", "d", "e">>,
                      <<".", "i", "t">>, <<".", "p", "t">>, <<".", "r", "u">>, <<".", "j", "a">>,
                      <<".", "k", "o">>, <<".", "z", "h">>>>

RECURSIVE RemoveEveryKnownSuffix(_, _, _)
\* a slip: the loop without its break, which goes on to the suffixes after the one removed
RemoveEveryKnownSuffix(name, suffixes, k) ==
    IF k > Len(suffixes) THEN name
    ELSE IF EndsWith(Lower(name), suffixes[k])
         THEN RemoveEveryKnownSuffix(SubSeq(name, 1, Len(name) - Len(suffixes[k])), suffixes, k + 1)
         ELSE RemoveEveryKnownSuffix(name, suffixes, k + 1)

RECURSIVE RemoveFirstKnownSuffix(_, _, _)
\* lines 72-75 and 78-81: the loop over suffixes from the k-th on, which removes the first
\* suffix that name ends with (case-insensitively) and breaks
RemoveFirstKnownSuffix(name, suffixes, k) ==
    IF k > Len(suffixes) THEN name
    ELSE IF EndsWith(Lower(name), suffixes[k])
         THEN SubSeq(name, 1, Len(name) - Len(suffixes[k]))
         ELSE RemoveFirstKnownSuffix(name, suffixes, k + 1)

\* a slip: the language-code loop without its break
get_base_filename_NoBreak(fname) ==
    RemoveEveryKnownSuffix(RemoveFirstKnownSuffix(fname, known_extensions, 1), known_lang_codes, 1)

\* a slip: the two loops in the other order, language codes before extensions
get_base_filename_CodeFirst(fname) ==
    RemoveFirstKnownSuffix(RemoveFirstKnownSuffix(fname, known_lang_codes, 1), known_extensions, 1)

\* lines 61-83
get_base_filename_without_known_extensions(fname) ==
    RemoveFirstKnownSuffix(RemoveFirstKnownSuffix(fname, known_extensions, 1), known_lang_codes, 1)

\* the file names given to the function: a stem followed by up to MaxSuffixes tokens
Stems == {<<>>, <<"a">>, <<"a", ".", "b">>,
          <<"T", "a", "l", "k", "_", "2", "0", "2", "3", "0", "1", "0", "1", "_",
            "E", "x", "a", "m", "p", "l", "e">>}

SuffixTokens == {DotVtt, <<".", "V", "T", "T">>, <<".", "e", "n">>, <<".", "e", "s">>,
                 <<".", "Z", "h">>, DotTxt, <<"e", "n">>}

RECURSIVE Concat(_)
Concat(parts) == IF parts = <<>> THEN <<>> ELSE Head(parts) \o Concat(Tail(parts))

FileNames == {stem \o Concat(toks) :
                stem \in Stems, toks \in UNION {[1..n -> SuffixTokens] : n \in 0..MaxSuffixes}}

InitName ==
    /\ filename \in FileNames
    /\ base_name = <<>>
    /\ name_pc = "start"

\* one call of the function
ResolveBaseName ==
    /\ name_pc = "start"
    /\ base_name' = get_base_filename_without_known_extensions(filename)
    /\ name_pc' = "returned"
    /\ UNCHANGED filename
    /\ UNCHANGED <<normVars, mainVars, indexVars, infoVars>>

NextName == ResolveBaseName

-----------------------------------------------------------------------------
(* convert_vtt_to_txt.main: the normalization batch driver *)

\* the files that may lie in the transcripts directory
N_a_en_vtt == <<"a", ".", "e", "n", ".", "v", "t", "t">>
N_a_es_vtt == <<"a", ".", "e", "s", ".", "v", "t", "t">>
N_b_VTT == <<"b", ".", "V", "T", "T">>
N_notes_txt == <<"n", "o", "t", "e", "s", ".", "t", "x", "t">>

BatchNames == {N_a_en_vtt, N_a_es_vtt, N_b_VTT, N_notes_txt}

\* a caption document without any cue text
Doc_no_text == <<WEBVTT, L_blank, L_timing, L_blank>>

BatchDocs == {Doc_header_hi, Doc_no_text}

Unreadable == [readable |-> FALSE, lines |-> <<>>]

FileStates == {Unreadable} \cup {[readable |-> TRUE, lines |-> ReadLinesOf(d)] : d \in BatchDocs}

\* os.listdir: the names of the directory, each once, in some order
Listings == {l \in UNION {[1..n -> BatchNames] : n \in 0..MaxFiles} :
                \A i, j \in 1..Len(l) : i # j => l[i] # l[j]}

NoFiles == [x \in {} |-> <<>>]

\* the directory `dir` after file `name` got the content `content`
WithFile(dir, name, content) ==
    [x \in (DOMAIN dir) \cup {name} |-> IF x = name THEN content ELSE dir[x]]

\* what open(output_txt_path, "w") and f.write can do: succeed, fail before the file is
\* touched, fail after open has truncated or created it
WriteOutcomes == {"ok", "open_fails", "write_fails"}

\* a slip: the extension compared without lower()
IsVttName_CaseSensitive(name) == EndsWith(name, DotVtt)

\* line 109
IsVttName(name) == EndsWith(Lower(name), DotVtt)

\* a slip: the emptiness test `if cleaned_text:` in place of `is not None`
IsSuccess_Truthy(ct) == ct # <<>> /\ ct[1] # <<>>

\* line 116: cleaned_text is not None
IsSuccess(ct) == ct # <<>>

\* lines 6-59 as main sees them: None when the file cannot be read, else the cleaned text
clean_vtt_to_txt(file) == IF file.readable THEN <<CleanLines(file.lines)>> ELSE <<>>

\* the two calls main makes per caption file, tabulated over the files of the model
\* (line 114 and lines 118-119)
CleanedTextOf == [file \in FileStates |-> clean_vtt_to_txt(file)]

OutputFilenameOf == [name \in BatchNames |-> get_base_filename_without_known_extensions(name) \o DotTxt]

IsCaption == [name \in BatchNames |-> IsVttName(name)]

InitMain ==
    /\ input_dir_exists \in BOOLEAN
    /\ listing \in (IF input_dir_exists THEN Listings ELSE {<<>>})
    /\ source \in [{listing[k] : k \in 1..Len(listing)} -> FileStates]
    /\ \A k \in 1..Len(listing) : ~IsVttName(listing[k]) => source[listing[k]] = Unreadable
    /\ output_dir_exists \in BOOLEAN
    /\ out_files = NoFiles
    /\ total_files = 0
    /\ converted_files = 0
    /\ skipped_files = 0
    /\ pos = 1
    /\ cleaned_text = <<>>
    /\ opened = <<>>
    /\ log = <<>>
    /\ exit_status = "none"
    /\ main_pc = "start"

\* a slip: the output directory made before the input directory is looked at
StartMain_MakedirsFirst ==
    /\ main_pc = "start"
    /\ output_dir_exists' = TRUE
    /\ IF ~input_dir_exists
       THEN /\ log' = Append(log, <<"input_dir_not_found", <<>>>>)
            /\ exit_status' = "1"
            /\ main_pc' = "aborted"
       ELSE /\ main_pc' = "loop"
            /\ UNCHANGED <<log, exit_status>>
    /\ UNCHANGED <<input_dir_exists, listing, source, out_files, total_files, converted_files,
                   skipped_files, pos, cleaned_text, opened>>
    /\ UNCHANGED <<normVars, nameVars, indexVars, infoVars>>

\* lines 86-104: sys.exit(1) when the input directory is missing, else makedirs and the
\* counters at 0
StartMain ==
    /\ main_pc = "start"
    /\ IF ~input_dir_exists
       THEN /\ log' = Append(log, <<"input_dir_not_found", <<>>>>)
            /\ exit_status' = "1"
            /\ main_pc' = "aborted"
            /\ UNCHANGED output_dir_exists
       ELSE /\ output_dir_exists' = TRUE
            /\ main_pc' = "loop"
            /\ UNCHANGED <<log, exit_status>>
    /\ UNCHANGED <<input_dir_exists, listing, source, out_files, total_files, converted_files,
                   skipped_files, pos, cleaned_text, opened>>
    /\ UNCHANGED <<normVars, nameVars, indexVars, infoVars>>

\* lines 127-129, a slip: the write error not caught, so that it ends the run
AfterWriteError_Uncaught == "crashed"

\* lines 127-129: `except Exception` catches the write error and the loop goes on
AfterWriteError == "loop"

\* lines 107-133: one iteration of the loop over the listing
ProcessEntry ==
    /\ main_pc = "loop"
    /\ pos <= Len(listing)
    /\ pos' = pos + 1
    /\ LET name == listing[pos]
           ct == CleanedTextOf[source[name]]
           output_filename == OutputFilenameOf[name]
           read_error == IF source[name].readable THEN <<>> ELSE <<<<"read_error", name>>>>
       IN  IF ~IsCaption[name]
           THEN UNCHANGED <<out_files, total_files, converted_files, skipped_files,
                            cleaned_text, opened, log, main_pc>>
           ELSE /\ total_files' = total_files + 1
                /\ opened' = Append(opened, name)
                /\ cleaned_text' = ct
                /\ IF IsSuccess(ct)
                   THEN \E outcome \in WriteOutcomes :
                          IF outcome = "ok"
                          THEN /\ out_files' = WithFile(out_files, output_filename, ct[1])
                               /\ converted_files' = converted_files + 1
                               /\ log' = log \o read_error
                               /\ UNCHANGED <<skipped_files, main_pc>>
                          ELSE /\ out_files' = (IF outcome = "write_fails"
                                                THEN WithFile(out_files, output_filename, <<>>)
                                                ELSE out_files)
                               /\ log' = log \o read_error \o <<<<"write_error", output_filename>>>>
                               /\ skipped_files' = skipped_files + 1
                               /\ main_pc' = AfterWriteError
                               /\ UNCHANGED converted_files
                   ELSE /\ skipped_files' = skipped_files + 1
                        /\ log' = log \o read_error \o <<<<"skipped", name>>>>
                        /\ UNCHANGED <<out_files, converted_files, main_pc>>
    /\ UNCHANGED <<input_dir_exists, listing, source, output_dir_exists, exit_status>>
    /\ UNCHANGED <<normVars, nameVars, indexVars, infoVars>>

\* lines 136-142: the final report
Report ==
    /\ main_pc = "loop"
    /\ pos > Len(listing)
    /\ log' = Append(log, <<"report", <<>>>>)
    /\ exit_status' = "0"
    /\ main_pc' = "done"
    /\ UNCHANGED <<input_dir_exists, listing, source, output_dir_exists, out_files, total_files,
                   converted_files, skipped_files, pos, cleaned_text, opened>>
    /\ UNCHANGED <<normVars, nameVars, indexVars, infoVars>>

NextMain == StartMain \/ ProcessEntry \/ Report

-----------------------------------------------------------------------------
(* create_search_index.py: extract_info_from_filename *)

IndexNamePrefix == <<"T", "h", "e", "M", "o", "n", "e", "y", "G", "P", "S", "_">>
UnknownDate == <<"U", "n", "k", "n", "o", "w", "n", " ", "D", "a", "t", "e">>

\* the positions p >= 22 at which \.txt matches after (.*) has taken name[22..p-1]
\* ("." matches any character but a line break)
TxtMatches(name) ==
    {p \in 22..(Len(name) - 3) :
        /\ SubSeq(name, p, p + 3) = DotTxt
        /\ \A m \in 22..(p - 1) : name[m] # "\n"}

\* line 10: re.match(r"TheMoneyGPS_(\d{8})_(.*)\.txt", filename)
NameMatches(name) ==
    /\ StartsWith(name, IndexNamePrefix)
    /\ Len(name) >= 21
    /\ \A k \in 13..20 : IsDigit(name[k])
    /\ name[21] = "_"
    /\ TxtMatches(name) # {}

\* group 2 of the match: (.*) is greedy, so the last \.txt ends it
TitleGroup(name) ==
    LET p == CHOOSE q \in TxtMatches(name) : \A r \in TxtMatches(name) : r <= q
    IN  SubSeq(name, 22, p - 1)

\* a slip: the underscores of the title left as they are
UnderscoresToSpaces_Kept(s) == s

\* str.replace('_', ' ')
UnderscoresToSpaces(s) == [k \in 1..Len(s) |-> IF s[k] = "_" THEN " " ELSE s[k]]

\* line 16: f"{date_str[:4]}-{date_str[4:6]}-{date_str[6:]}"
FormatDate(date_str) ==
    SubSeq(date_str, 1, 4) \o <<"-">> \o SubSeq(date_str, 5, 6) \o <<"-">> \o SubSeq(date_str, 7, Len(date_str))

\* os.path.splitext(p)[0] for a name without directory part: cut at the last dot, unless
\* only dots come before it
SplitextRoot(name) ==
    IF \E k \in 1..Len(name) : name[k] = "."
    THEN LET dot == CHOOSE k \in 1..Len(name) : name[k] = "." /\ \A m \in (k + 1)..Len(name) : name[m] # "."
         IN  IF \E m \in 1..(dot - 1) : name[m] # "." THEN SubSeq(name, 1, dot - 1) ELSE name
    ELSE name

\* lines 7-20: gives <<date, title>>
extract_info_from_filename(name) ==
    IF NameMatches(name)
    THEN <<FormatDate(SubSeq(name, 13, 20)), UnderscoresToSpaces(TitleGroup(name))>>
    ELSE <<UnknownDate, SplitextRoot(name)>>

\* the file names given to the function: a source token, a date, a separator, a title
\* and an ending
SourceTokens == {IndexNamePrefix, <<"S", "o", "u", "r", "c", "e", "_">>,
                 <<"t", "h", "e", "m", "o", "n", "e", "y", "g", "p", "s", "_">>,
                 <<"X">> \o IndexNamePrefix, <<>>}

DateTokens == {<<"2", "0", "2", "3", "0", "6", "1", "5">>, <<"1", "9", "9", "9", "1", "2", "3", "1">>,
               <<"2", "0", "2", "3", "0", "6", "1">>, <<"2", "0", "2", "3", "0", "6", "1", "5", "0">>,
               <<"2", "0", "2", "3", "O", "6", "1", "5">>}

Separators == {<<"_">>, <<"-">>}

TitleTokens == {<<>>, <<"M", "y", "_", "G", "r", "e", "a", "t", "_", "T", "i", "t", "l", "e">>,
                <<"M", "y", " ", "G", "r", "e", "a", "t", " ", "T", "i", "t", "l", "e">>,
                <<"a", "_", "_", "b">>}

Endings == {DotTxt, <<".", "T", "X", "T">>, <<".", "m", "d">>, <<>>, DotTxt \o <<".", "m", "d">>,
            DotTxt \o DotTxt}

InfoNames == {src \o date \o sep \o title \o ending :
                src \in SourceTokens, date \in DateTokens, sep \in Separators,
                title \in TitleTokens, ending \in Endings}

InitInfo ==
    /\ info_filename \in InfoNames
    /\ info_date = <<>>
    /\ info_title = <<>>
    /\ info_pc = "start"

\* one call of the function
ExtractInfo ==
    /\ info_pc = "start"
    /\ info_date' = extract_info_from_filename(info_filename)[1]
    /\ info_title' = extract_info_from_filename(info_filename)[2]
    /\ info_pc' = "returned"
    /\ UNCHANGED info_filename
    /\ UNCHANGED <<normVars, nameVars, mainVars, indexVars>>

NextInfo == ExtractInfo

-----------------------------------------------------------------------------
(* create_search_index.main: the index build *)

A_money == <<"T", "h", "e", "M", "o", "n", "e", "y", "G", "P", "S", "_", "2", "0", "2", "3", "0", "6", "1", "5", "_",
             "M", "y", "_", "G", "r", "e", "a", "t", "_", "T", "i", "t", "l", "e", ".", "t", "x", "t">>
A_source == <<"S", "o", "u", "r", "c", "e", "_", "2", "0", "2", "3", "0", "6", "1", "5", "_",
              "M", "y", " ", "G", "r", "e", "a", "t", " ", "T", "i", "t", "l", "e", ".", "t", "x", "t">>
A_notes == <<"n", "o", "t", "e", "s", ".", "t", "x", "t">>
A_readme == <<"r", "e", "a", "d", "m", "e", ".", "m", "d">>
A_upper == <<"B", ".", "T", "X", "T">>
A_old == <<"o", "l", "d", ".", "t", "x", "t">>

ArtifactNames == {A_money, A_source, A_notes, A_upper, A_readme}

UnreadableArtifact == [readable |-> FALSE, text |-> <<>>]

ArtifactStates == {UnreadableArtifact, [readable |-> TRUE, text |-> <<>>], [readable |-> TRUE, text |-> L_hi]}

ArtifactListings == {l \in UNION {[1..n -> ArtifactNames] : n \in 0..MaxArtifacts} :
                        \A i, j \in 1..Len(l) : i # j => l[i] # l[j]}

\* line 39
IsTxtName(name) == EndsWith(Lower(name), DotTxt)

\* a slip: the content test left out
HasContent_Always(text_content) == TRUE

\* line 45: `if text_content:`
HasContent(text_content) == text_content # <<>>

\* lines 47-52
IndexRecord(name, text) ==
    [filename |-> name,
     date |-> extract_info_from_filename(name)[1],
     title |-> extract_info_from_filename(name)[2],
     text |-> text]

NoIndex == [state |-> "absent", data |-> <<>>]

\* an index left by an earlier run
OldIndex == [state |-> "complete", data |-> <<IndexRecord(A_old, <<"o", "l", "d">>)>>]

\* what open(output_json_file, "w") and json.dump can do: succeed, fail before the file is
\* touched, fail after open has truncated it and json.dump has written part of the document
IndexWriteOutcomes == {"ok", "open_fails", "write_fails"}

InitIndex ==
    /\ clean_dir_exists \in BOOLEAN
    /\ artifact_listing \in (IF clean_dir_exists THEN ArtifactListings ELSE {<<>>})
    /\ artifacts \in [{artifact_listing[k] : k \in 1..Len(artifact_listing)} -> ArtifactStates]
    /\ search_data = <<>>
    /\ file_count = 0
    /\ artifact_pos = 1
    /\ index_file \in {NoIndex, OldIndex}
    /\ prior_index = index_file
    /\ index_log = <<>>
    /\ index_pc = "start"

\* lines 22-36: sys.exit(1) when the clean text directory is missing
StartIndex ==
    /\ index_pc = "start"
    /\ IF ~clean_dir_exists
       THEN /\ index_log' = Append(index_log, <<"clean_dir_not_found", <<>>>>)
            /\ index_pc' = "aborted"
       ELSE /\ index_pc' = "loop"
            /\ UNCHANGED index_log
    /\ UNCHANGED <<clean_dir_exists, artifact_listing, artifacts, search_data, file_count,
                   artifact_pos, index_file, prior_index>>
    /\ UNCHANGED <<normVars, nameVars, mainVars, infoVars>>

\* lines 38-55: one iteration of the loop over the listing
IndexEntry ==
    /\ index_pc = "loop"
    /\ artifact_pos <= Len(artifact_listing)
    /\ artifact_pos' = artifact_pos + 1
    /\ LET name == artifact_listing[artifact_pos]
           file == artifacts[name]
       IN  IF ~IsTxtName(name)
           THEN UNCHANGED <<search_data, file_count, index_log>>
           ELSE IF ~file.readable
           THEN /\ index_log' = Append(index_log, <<"read_error", name>>)
                /\ UNCHANGED <<search_data, file_count>>
           ELSE IF HasContent(file.text)
           THEN /\ search_data' = Append(search_data, IndexRecord(name, file.text))
                /\ file_count' = file_count + 1
                /\ UNCHANGED index_log
           ELSE UNCHANGED <<search_data, file_count, index_log>>
    /\ UNCHANGED <<clean_dir_exists, artifact_listing, artifacts, index_file, prior_index, index_pc>>
    /\ UNCHANGED <<normVars, nameVars, mainVars, infoVars>>

\* lines 57-64: open the index file for writing and dump search_data into it
WriteIndex ==
    /\ index_pc = "loop"
    /\ artifact_pos > Len(artifact_listing)
    /\ index_pc' = "done"
    /\ \E outcome \in IndexWriteOutcomes :
         IF outcome = "ok"
         THEN /\ index_file' = [state |-> "complete", data |-> search_data]
              /\ index_log' = Append(index_log, <<"index_created", <<>>>>)
         ELSE IF outcome = "open_fails"
         THEN /\ index_file' = index_file
              /\ index_log' = Append(index_log, <<"index_write_error", <<>>>>)
         ELSE \E written \in 0..Len(search_data) :
                /\ index_file' = [state |-> "partial", data |-> SubSeq(search_data, 1, written)]
                /\ index_log' = Append(index_log, <<"index_write_error", <<>>>>)
    /\ UNCHANGED <<clean_dir_exists, artifact_listing, artifacts, search_data, file_count,
                   artifact_pos, prior_index>>
    /\ UNCHANGED <<normVars, nameVars, mainVars, infoVars>>

NextIndex == StartIndex \/ IndexEntry \/ WriteIndex

-----------------------------------------------------------------------------
(* The specifications: one per program run that is modelled *)

IdleNorm ==
    /\ file_lines = <<>>
    /\ readable = FALSE
    /\ lines = <<>>
    /\ idx = 1
    /\ cleaned_segments = <<>>
    /\ in_style_block = FALSE
    /\ last_added_segment = <<>>
    /\ full_text = <<>>
    /\ recleaned = <<>>
    /\ pc = "idle"

IdleName ==
    /\ filename = <<>>
    /\ base_name = <<>>
    /\ name_pc = "idle"

IdleMain ==
    /\ input_dir_exists = FALSE
    /\ listing = <<>>
    /\ source = NoFiles
    /\ output_dir_exists = FALSE
    /\ out_files = NoFiles
    /\ total_files = 0
    /\ converted_files = 0
    /\ skipped_files = 0
    /\ pos = 1
    /\ cleaned_text = <<>>
    /\ opened = <<>>
    /\ log = <<>>
    /\ exit_status = "none"
    /\ main_pc = "idle"

IdleIndex ==
    /\ clean_dir_exists = FALSE
    /\ artifact_listing = <<>>
    /\ artifacts = NoFiles
    /\ search_data = <<>>
    /\ file_count = 0
    /\ artifact_pos = 1
    /\ index_file = NoIndex
    /\ prior_index = NoIndex
    /\ index_log = <<>>
    /\ index_pc = "idle"

IdleInfo ==
    /\ info_filename = <<>>
    /\ info_date = <<>>
    /\ info_title = <<>>
    /\ info_pc = "idle"

\* one call of clean_vtt_to_txt
Init == InitNorm /\ IdleName /\ IdleMain /\ IdleIndex /\ IdleInfo

Next == NextNorm

Spec == Init /\ [][Next]_vars

\* one call of get_base_filename_without_known_extensions
InitNameRun == InitName /\ IdleNorm /\ IdleMain /\ IdleIndex /\ IdleInfo

SpecName == InitNameRun /\ [][NextName]_vars

\* one run of convert_vtt_to_txt.py
InitMainRun == InitMain /\ IdleNorm /\ IdleName /\ IdleIndex /\ IdleInfo

SpecMain == InitMainRun /\ [][NextMain]_vars

\* the same run: the interpreter goes on while a statement is left to execute
SpecMainFair == SpecMain /\ WF_vars(NextMain)

InitIndexRun == InitIndex /\ IdleNorm /\ IdleName /\ IdleMain /\ IdleInfo

\* one run of create_search_index.py
SpecIndex == InitIndexRun /\ [][NextIndex]_vars

InitInfoRun == InitInfo /\ IdleNorm /\ IdleName /\ IdleMain /\ IdleIndex

\* one call of extract_info_from_filename
SpecInfo == InitInfoRun /\ [][NextInfo]_vars

-----------------------------------------------------------------------------
(* Properties of clean_vtt_to_txt, checked under Spec *)

\* s holds a substring "<", one or more characters other than ">", ">"
HasTag(s) ==
    \E p \in 1..Len(s) : \E q \in (p + 2)..Len(s) :
        s[p] = "<" /\ s[q] = ">" /\ \A m \in (p + 1)..(q - 1) : s[m] # ">"

\* the call has gone through its whole loop
PassDone == pc \in {"returned", "recleaned"}

\* C1: at every point of the pass no two consecutive elements of cleaned_segments are
\* character-identical, while a segment may come back non-adjacently: the cue lines
\* A, B, A give the three accepted segments A, B, A.
C1_NoAdjacentDuplicates ==
    /\ \A k \in 1..(Len(cleaned_segments) - 1) : cleaned_segments[k] # cleaned_segments[k + 1]
    /\ (PassDone /\ file_lines = ReadLinesOf(<<L_hi, L_a_b, L_hi>>))
           => cleaned_segments = <<L_hi, L_a_b, L_hi>>

\* C1 witness: a pass over A, B, A, A (timing lines between) has ended with A, B, A accepted:
\* the adjacent repeat was dropped, the non-adjacent one kept.
C1_Witness ==
    /\ pc = "returned"
    /\ file_lines = ReadLinesOf(Doc_aba)
    /\ cleaned_segments = <<L_hi, L_a_b, L_hi>>

\* the text a cue line of CueTexts carries: the line without its tags, trimmed, its
\* whitespace runs collapsed (written out, not computed)
CarriedText(T) ==
    CASE T = L_same_phrase -> L_same_phrase
      [] T = L_hi -> L_hi
      [] T = L_a_b -> L_a_b
      [] T = L_a__b -> L_a_b
      [] T = L_padded_hi -> L_hi
      [] T = L_markup -> L_hello_world

\* C2: a document of N >= 1 consecutive cue blocks (optional digits-only sequence number,
\* timing line, one text line, blank line) whose text lines all carry the same text
\* normalizes to that text exactly once: one accepted segment, and the returned string is
\* the text, whatever blank, sequence-number and timing lines lie between the repeats.
C2_RollingCaptionCollapse ==
    \A T \in CueTexts, n \in 1..MaxBlocks, pat \in NumberingPatterns :
        (PassDone /\ file_lines = ReadLinesOf(CueDoc(T, n, pat)))
            => /\ Len(cleaned_segments) = 1
               /\ full_text = CarriedText(T)

\* C2 witness: three numbered cue blocks of "same phrase" have been normalized to "same phrase".
C2_Witness ==
    /\ pc = "returned"
    /\ file_lines = ReadLinesOf(CueDoc(L_same_phrase, 3, "all"))
    /\ Len(file_lines) = 12
    /\ full_text = L_same_phrase

IsPlainCueText(S) ==
    /\ S # <<>>
    /\ S # WEBVTT
    /\ ~StartsWith(Lower(S), KindPrefix)
    /\ ~StartsWith(Lower(S), LanguagePrefix)
    /\ ~StartsWith(S, NOTE)
    /\ ~StartsWith(S, STYLE)
    /\ ~(TimestampAt(S, 1) /\ Len(S) >= 13 /\ IsSpace(S[13]))
    /\ ~(\A k \in 1..Len(S) : IsDigit(S[k]))
    /\ ~HasTag(S)

\* C4 as claimed: for every string S the normalizer returns, normalizing the one-line
\* document [S] returns S again.
C4_Idempotent == pc = "recleaned" => recleaned = full_text

\* C4 as amended: normalizing [S] returns S for every returned S that is empty, or that
\* the loop treats as cue text (not WEBVTT, no kind:/language:/NOTE/STYLE prefix, no timing
\* line, not all digits) and that holds no "<...>" tag.
C4_IdempotentOnPlainText ==
    (pc = "recleaned" /\ (full_text = <<>> \/ IsPlainCueText(full_text)))
        => recleaned = full_text

\* C4 witness: a returned text of two segments has been normalized again to itself.
C4_Witness ==
    /\ pc = "recleaned"
    /\ cleaned_segments = <<L_hi, WEBVTT>>
    /\ IsPlainCueText(full_text)
    /\ recleaned = full_text

\* C5: no accepted segment holds a "<...>" tag; a cue line without any tag is accepted as
\* the trimmed line itself; "<c>hello</c> <v Speaker>world</v>" gives the segment
\* "hello world".
C5_MarkupStripped ==
    /\ \A k \in 1..Len(cleaned_segments) : ~HasTag(cleaned_segments[k])
    /\ (PassDone /\ file_lines = ReadLinesOf(Doc_markup)) => cleaned_segments = <<L_hello_world>>
    /\ \A s \in {L_hi, L_a__b, L_open, L_close, L_same_phrase} :
           (PassDone /\ file_lines = ReadLinesOf(<<s>>)) => cleaned_segments = <<s>>
    /\ \A d \in TagDocs :
           (PassDone /\ file_lines = ReadLinesOf(d) /\ ~HasTag(d[1]))
               => cleaned_segments = (IF Strip(d[1]) = <<>> THEN <<>> ELSE <<Strip(d[1])>>)

\* C5 witness: the marked-up cue line has been accepted as "hello world".
C5_Witness ==
    /\ pc = "returned"
    /\ file_lines = ReadLinesOf(Doc_markup)
    /\ cleaned_segments = <<L_hello_world>>

\* the characters of s that are not whitespace
Inked(s) == SelectSeq(s, LAMBDA c : c \notin {" ", "\t", "\n"})

\* C15: the returned string is the accepted segments joined by single spaces, every
\* whitespace run collapsed and the ends trimmed: it neither starts nor ends with
\* whitespace, holds no two consecutive whitespace characters and no whitespace character
\* other than the space, and its other characters are those of the segments, in order.
C15_ReturnedTextIsNormalized ==
    PassDone =>
        /\ full_text # <<>> =>
              /\ full_text[1] \notin {" ", "\t", "\n"}
              /\ full_text[Len(full_text)] \notin {" ", "\t", "\n"}
        /\ \A k \in 1..(Len(full_text) - 1) : ~(full_text[k] = " " /\ full_text[k + 1] = " ")
        /\ \A k \in 1..Len(full_text) : full_text[k] \notin {"\t", "\n"}
        /\ Inked(full_text) = Inked(Concat(cleaned_segments))
        /\ Len(full_text) - Len(Inked(full_text)) >= Len(cleaned_segments) - 1

\* C15 witness: the cue lines "a<tab><space>b" and "  <i>hi</i><tab>" have been returned as
\* "a b hi".
C15_Witness ==
    /\ pc = "returned"
    /\ file_lines = ReadLinesOf(Doc_tabbed)
    /\ cleaned_segments = <<L_a_tab_b, L_hi>>
    /\ full_text = <<"a", " ", "b", " ", "h", "i">>

\* a segment as it stands in the returned text: its whitespace runs collapsed
AsReturned(seg) == SubWs(seg, 1)

\* C16 as claimed: two consecutively accepted segments are never equal once their
\* whitespace runs have been collapsed as in the returned text.
C16_AdjacentDistinctAfterCollapse ==
    \A k \in 1..(Len(cleaned_segments) - 1) :
        AsReturned(cleaned_segments[k]) # AsReturned(cleaned_segments[k + 1])

\* C16 as amended: two consecutively accepted segments differ as accepted, before the
\* whitespace runs are collapsed; they are equal in the returned text only when they
\* differ in their whitespace alone, and then both are kept: the cue lines "a  b" and
\* "a b" give "a b a b".
C16_AdjacentDistinctBeforeCollapse ==
    /\ \A k \in 1..(Len(cleaned_segments) - 1) :
           /\ cleaned_segments[k] # cleaned_segments[k + 1]
           /\ AsReturned(cleaned_segments[k]) = AsReturned(cleaned_segments[k + 1])
                  => /\ Inked(cleaned_segments[k]) = Inked(cleaned_segments[k + 1])
                     /\ Len(cleaned_segments[k]) # Len(AsReturned(cleaned_segments[k]))
                           \/ Len(cleaned_segments[k + 1]) # Len(AsReturned(cleaned_segments[k + 1]))
                           \/ \E c \in {"\t", "\n"} :
                                  \E i \in 1..Len(cleaned_segments[k]) : cleaned_segments[k][i] = c
    /\ (PassDone /\ file_lines = ReadLinesOf(<<L_a__b, L_a_b>>))
           => /\ cleaned_segments = <<L_a__b, L_a_b>>
              /\ full_text = <<"a", " ", "b", " ", "a", " ", "b">>

\* C16 witness: the cue lines "a  b" and "a b" have been returned as "a b a b".
C16_Witness ==
    /\ pc = "returned"
    /\ file_lines = ReadLinesOf(<<L_a__b, L_a_b>>)
    /\ Len(cleaned_segments) = 2
    /\ full_text = <<"a", " ", "b", " ", "a", " ", "b">>

\* the loop is about to take a line
AtLine == pc = "loop" /\ idx <= Len(lines)

\* C17: when in_style_block is true and the trimmed line is empty the block ends: the flag
\* is cleared and the line discarded, so that cue text after the blank line that follows a
\* STYLE block is accepted: [WEBVTT, blank, STYLE, ::cue { }, blank, timing line, hi]
\* gives "hi".
C17_BlankLineEndsStyleBlock ==
    /\ [][(AtLine /\ in_style_block /\ Strip(lines[idx]) = <<>>)
            => /\ in_style_block' = FALSE
               /\ UNCHANGED <<cleaned_segments, last_added_segment>>]_vars
    /\ []((PassDone /\ file_lines = ReadLinesOf(Doc_style)) => full_text = L_hi)

\* C18: an iteration on a line that, trimmed, begins with STYLE sets in_style_block and
\* leaves cleaned_segments and last_added_segment as they are; an iteration while
\* in_style_block is true appends nothing and leaves last_added_segment as it is.
C18_StyleBlockIsDiscarded ==
    [][AtLine =>
         /\ (Len(Strip(lines[idx])) >= 5 /\ SubSeq(Strip(lines[idx]), 1, 5) = <<"S", "T", "Y", "L", "E">>)
                => /\ in_style_block' = TRUE
                   /\ UNCHANGED <<cleaned_segments, last_added_segment>>
         /\ in_style_block => UNCHANGED <<cleaned_segments, last_added_segment>>]_vars

\* C18 witness: the pass over [timing, hi, timing, "STYLES a", timing, "a b"] has ended
\* with the flag set and "hi" alone accepted.
C18_Witness ==
    /\ pc = "returned"
    /\ file_lines = ReadLinesOf(Doc_style_word)
    /\ in_style_block
    /\ cleaned_segments = <<L_hi>>
    /\ last_added_segment = <<L_hi>>

\* the trimmed line is of a kind the loop discards before the cue-text branch
IsDiscardedKind(line) ==
    \/ IsHeaderLine(line) \/ IsNoteLine(line)
    \/ IsTimestampLine(line) \/ IsSequenceLine(line)

RECURSIVE CueValues(_, _)
\* the non-empty tag-stripped, trimmed values of the lines of ls from the k-th on that reach
\* the cue-text branch: those before the first STYLE line that are of no discarded kind
CueValues(ls, k) ==
    IF k > Len(ls) \/ StartsWith(Strip(ls[k]), STYLE) THEN <<>>
    ELSE (IF IsDiscardedKind(Strip(ls[k])) \/ RemoveTags(Strip(ls[k])) = <<>>
          THEN <<>> ELSE <<RemoveTags(Strip(ls[k]))>>)
         \o CueValues(ls, k + 1)

RECURSIVE DropAdjacentRepeats(_)
\* seq without every element that equals the element before it
DropAdjacentRepeats(seq) ==
    IF Len(seq) <= 1 THEN seq
    ELSE LET front == DropAdjacentRepeats(SubSeq(seq, 1, Len(seq) - 1))
         IN  IF seq[Len(seq)] = seq[Len(seq) - 1] THEN front ELSE Append(front, seq[Len(seq)])

-----------------------------------------------------------------------------
(* Properties of convert_vtt_to_txt.main, checked under SpecMain and SpecMainFair *)

N_a_txt == <<"a", ".", "t", "x", "t">>
N_b_txt == <<"b", ".", "t", "x", "t">>

\* the artifact name of each caption file of BatchNames (written out, not computed)
ArtifactOf(name) ==
    CASE name = N_a_en_vtt -> N_a_txt
      [] name = N_a_es_vtt -> N_a_txt
      [] name = N_b_VTT -> N_b_txt

NoTextFile == [readable |-> TRUE, lines |-> ReadLinesOf(Doc_no_text)]

\* the driver is about to handle a caption file
AtCaptionFile == main_pc = "loop" /\ pos <= Len(listing) /\ IsVttName(listing[pos])

Logged(kind) == Cardinality({k \in 1..Len(log) : log[k][1] = kind})

\* the caption files of the listing that cannot be read
UnreadableCaptions == {k \in 1..Len(listing) : IsVttName(listing[k]) /\ ~source[listing[k]].readable}

\* C7: no per-document failure aborts the batch. Whatever read and write failures occur,
\* a run whose input directory exists reaches its final report; by then every caption file
\* of the listing was handled, in order, each read failure and each write failure was
\* logged, and skipped_files counts exactly the failed documents.
C7_FailuresNeverAbortTheBatch ==
    /\ (main_pc = "start" /\ input_dir_exists) ~> (main_pc = "done")
    /\ [](main_pc = "done" =>
            /\ pos = Len(listing) + 1
            /\ opened = SelectSeq(listing, IsVttName)
            /\ \A k \in UnreadableCaptions :
                   \E i \in 1..Len(log) : log[i] = <<"read_error", listing[k]>>
            /\ Logged("read_error") = Cardinality(UnreadableCaptions)
            /\ skipped_files = Logged("read_error") + Logged("write_error")
            /\ log[Len(log)] = <<"report", <<>>>>
            /\ exit_status = "0")

\* C7 witness: a run with a read failure, a write failure and a success has reached its report.
C7_Witness ==
    /\ main_pc = "done"
    /\ Len(opened) = 3
    /\ Logged("read_error") = 1
    /\ Logged("write_error") = 1
    /\ converted_files = 1
    /\ skipped_files = 2

\* C8: when the input directory is missing the run aborts with status 1 before any
\* processing: no document is opened, no artifact is written, no counter is incremented,
\* and the output directory is not created.
C8_MissingInputDirAborts ==
    /\ [](~input_dir_exists =>
            /\ main_pc \in {"start", "aborted"}
            /\ opened = <<>>
            /\ out_files = NoFiles
            /\ total_files = 0 /\ converted_files = 0 /\ skipped_files = 0
            /\ (main_pc = "aborted" <=> exit_status = "1"))
    /\ [][~input_dir_exists =>
            /\ output_dir_exists' = output_dir_exists
            /\ (main_pc = "start" => main_pc' = "aborted")]_vars

\* C8 witness: a run without input directory has aborted with status 1 and no output directory.
C8_Witness ==
    /\ ~input_dir_exists
    /\ main_pc = "aborted"
    /\ exit_status = "1"
    /\ ~output_dir_exists
    /\ log = <<<<"input_dir_not_found", <<>>>>>>

\* C14: within one run each artifact is created once for one document and immutable
\* thereafter: an artifact that holds the cleaned text of a document is not changed by the
\* handling of a later document, so that at the report there are at least as many artifacts
\* as converted documents ("a.en.vtt" and "a.es.vtt" leave two).
C14_ArtifactsWrittenOnce ==
    /\ [][\A n \in DOMAIN out_files :
             out_files[n] # <<>> => (n \in DOMAIN out_files' /\ out_files'[n] = out_files[n])]_vars
    /\ [](main_pc = "done" => Cardinality(DOMAIN out_files) >= converted_files)

\* the caption files of BatchNames (written out)
CaptionNames == {N_a_en_vtt, N_a_es_vtt, N_b_VTT}

\* C20: total_files = converted_files + skipped_files before and after each document and at
\* the report; the handling of a caption document adds one to total_files and one to
\* exactly one of converted_files and skipped_files, whatever fails; at the report
\* total_files is the number of caption documents of the listing.
C20_BatchAccounting ==
    /\ [](total_files = converted_files + skipped_files)
    /\ [][(main_pc = "loop" /\ pos <= Len(listing) /\ listing[pos] \in CaptionNames)
            => /\ total_files' = total_files + 1
               /\ \/ converted_files' = converted_files + 1 /\ skipped_files' = skipped_files
                  \/ converted_files' = converted_files /\ skipped_files' = skipped_files + 1]_vars
    /\ [](main_pc = "done"
            => total_files = Cardinality({k \in 1..Len(listing) : listing[k] \in CaptionNames}))

\* C20 witness: a run over two caption documents and another file has reported 2 found,
\* 1 converted and 1 skipped, after a write failure.
C20_Witness ==
    /\ main_pc = "done"
    /\ Len(listing) = 3
    /\ \E k \in 1..3 : listing[k] = N_notes_txt
    /\ total_files = 2
    /\ converted_files = 1
    /\ skipped_files = 1
    /\ Logged("write_error") = 1

-----------------------------------------------------------------------------
(* Properties of get_base_filename_without_known_extensions, checked under SpecName *)

\* the fixed set of language-code suffixes (written out)
LanguageCodes == {<<".", "e", "n">>, <<".", "e", "s">>, <<".", "f", "r">>, <<".", "d", "e">>,
                  <<".", "i", "t">>, <<".", "p", "t">>, <<".", "r", "u">>, <<".", "j", "a">>,
                  <<".", "k", "o">>, <<".", "z", "h">>}

N_a_en_es_vtt == <<"a", ".", "e", "n", ".", "e", "s", ".", "v", "t", "t">>
N_a_en == <<"a", ".", "e", "n">>

\* C10: the function removes at most one ".vtt" suffix and then, from what remains, at most
\* one language-code suffix of the fixed set, each when and only when it is present, matched
\* case-insensitively; the result is a prefix of the input, everything before is kept:
\* "a.en.es.vtt" gives "a.en" and "a.en" gives "a".
C10_OneExtensionThenOneCode ==
    name_pc = "returned" =>
        LET ext == IF EndsWith(Lower(filename), <<".", "v", "t", "t">>) THEN 4 ELSE 0
            rest == SubSeq(filename, 1, Len(filename) - ext)
            code == IF \E c \in LanguageCodes : EndsWith(Lower(rest), c) THEN 3 ELSE 0
        IN  /\ Len(base_name) <= Len(filename)
            /\ base_name = SubSeq(filename, 1, Len(base_name))
            /\ Len(base_name) = Len(filename) - ext - code
            /\ filename = N_a_en_es_vtt => base_name = N_a_en
            /\ filename = N_a_en => base_name = <<"a">>

\* C10 witness: "a.en.es.vtt" has been resolved to "a.en".
C10_Witness ==
    /\ name_pc = "returned"
    /\ filename = N_a_en_es_vtt
    /\ base_name = N_a_en

N_Talk == <<"T", "a", "l", "k", "_", "2", "0", "2", "3", "0", "1", "0", "1", "_",
            "E", "x", "a", "m", "p", "l", "e">>
N_Talk_en == N_Talk \o <<".", "e", "n">>
N_Talk_en_vtt == N_Talk_en \o <<".", "v", "t", "t">>

\* C11 as claimed: "Talk_20230101_Example.en.vtt" resolves to "Talk_20230101_Example.en".
C11_TalkResolvesToDotEn ==
    (name_pc = "returned" /\ filename = N_Talk_en_vtt) => base_name = N_Talk_en

\* C11 as amended: "Talk_20230101_Example.en.vtt" resolves, the extension and then the
\* language code stripped, to "Talk_20230101_Example".
C11_TalkResolvesToStem ==
    (name_pc = "returned" /\ filename = N_Talk_en_vtt) => base_name = N_Talk

\* C11 witness: the function has returned for "Talk_20230101_Example.en.vtt", with a
\* result 4 + 3 characters shorter than the name.
C11_Witness ==
    /\ name_pc = "returned"
    /\ filename = N_Talk_en_vtt
    /\ Len(base_name) = Len(filename) - 7

-----------------------------------------------------------------------------
(* Properties of create_search_index.main, checked under SpecIndex *)

\* C9: the index write is all-or-nothing: after the index build, also when the write
\* failed, the index file holds the complete new index or exactly its prior content,
\* never a truncated or partial document, and a failure is reported.
C9_IndexWriteAllOrNothing ==
    index_pc = "done" =>
        /\ \/ index_file = [state |-> "complete", data |-> search_data]
           \/ index_file = prior_index
        /\ index_file # [state |-> "complete", data |-> search_data]
               => index_log[Len(index_log)] = <<"index_write_error", <<>>>>

\* the names of ArtifactNames that are cleaned-text artifacts (written out)
TxtArtifacts == {A_money, A_source, A_notes, A_upper}

\* the entries of the listing that are to be indexed: readable cleaned-text artifacts
\* whose content is not the empty string
ToBeIndexed(name) ==
    name \in TxtArtifacts /\ artifacts[name].readable /\ artifacts[name].text # <<>>

\* the loop over the listing has ended
IndexLoopDone == index_pc = "done" \/ (index_pc = "loop" /\ artifact_pos > Len(artifact_listing))

\* C13: after an index build the record sequence holds exactly one record per readable
\* cleaned-text artifact with non-empty content, in the order of discovery, with that
\* artifact's name and content, and none for an artifact whose content is the empty string;
\* it starts empty on each run, so that no record of a previous index is carried over,
\* and a successful write leaves exactly this sequence in the index file.
C13_OneRecordPerNonEmptyArtifact ==
    /\ index_pc = "start" => search_data = <<>>
    /\ \A k \in 1..Len(search_data) : search_data[k].filename # A_old
    /\ IndexLoopDone =>
          /\ [k \in 1..Len(search_data) |-> search_data[k].filename]
                 = SelectSeq(artifact_listing, ToBeIndexed)
          /\ \A k \in 1..Len(search_data) :
                 /\ search_data[k].text = artifacts[search_data[k].filename].text
                 /\ search_data[k].text # <<>>
          /\ file_count = Len(search_data)
    /\ (index_pc = "done" /\ index_file.state = "complete" /\ index_file # prior_index)
          => index_file.data = search_data

\* C13 witness: a run that found an earlier index, an artifact with empty content and one
\* with content has written an index of one record, that of the second artifact.
C13_Witness ==
    /\ index_pc = "done"
    /\ prior_index = OldIndex
    /\ artifact_listing = <<A_money, A_notes>>
    /\ artifacts[A_money] = [readable |-> TRUE, text |-> <<>>]
    /\ artifacts[A_notes] = [readable |-> TRUE, text |-> L_hi]
    /\ index_file = [state |-> "complete",
                     data |-> <<[filename |-> A_notes, date |-> UnknownDate,
                                 title |-> <<"n", "o", "t", "e", "s">>, text |-> L_hi]>>]

-----------------------------------------------------------------------------
(* Properties of extract_info_from_filename, checked under SpecInfo *)

\* the dates of DateTokens that are 8 digits, as they are to be shown (written out)
DashedDate(date) ==
    CASE date = <<"2", "0", "2", "3", "0", "6", "1", "5">>
             -> <<"2", "0", "2", "3", "-", "0", "6", "-", "1", "5">>
      [] date = <<"1", "9", "9", "9", "1", "2", "3", "1">>
             -> <<"1", "9", "9", "9", "-", "1", "2", "-", "3", "1">>

EightDigitDates == {<<"2", "0", "2", "3", "0", "6", "1", "5">>, <<"1", "9", "9", "9", "1", "2", "3", "1">>}

T_My_Great_Title == <<"M", "y", " ", "G", "r", "e", "a", "t", " ", "T", "i", "t", "l", "e">>

\* the titles of TitleTokens with a space for each underscore (written out)
SpacedTitle(title) ==
    CASE title = <<>> -> <<>>
      [] title = <<"M", "y", "_", "G", "r", "e", "a", "t", "_", "T", "i", "t", "l", "e">> -> T_My_Great_Title
      [] title = T_My_Great_Title -> T_My_Great_Title
      [] title = <<"a", "_", "_", "b">> -> <<"a", " ", " ", "b">>

\* what is left of an ending of Endings when the trailing extension is removed (written out)
EndingRoot(ending) ==
    CASE ending = DotTxt \o <<".", "m", "d">> -> DotTxt
      [] ending = DotTxt \o DotTxt -> DotTxt
      [] OTHER -> <<>>

\* the call has returned, for the name made of these five parts
ReturnedFor(src, date, sep, title, ending) ==
    info_pc = "returned" /\ info_filename = src \o date \o sep \o title \o ending

\* C12 as claimed: for every name <Source>_<YYYYMMDD>_<Title>.txt, whatever the source
\* token, the date is the 8 digits as YYYY-MM-DD and the title is the title group with
\* spaces for underscores; for every other name the date is "Unknown Date" and the title
\* is the name without its trailing extension.
C12_AnySourceToken ==
    \A src \in SourceTokens, date \in DateTokens, sep \in Separators, title \in TitleTokens,
       ending \in Endings :
        ReturnedFor(src, date, sep, title, ending) =>
            IF src # <<>> /\ date \in EightDigitDates /\ sep = <<"_">> /\ ending = DotTxt
            THEN info_date = DashedDate(date) /\ info_title = SpacedTitle(title)
            ELSE /\ info_date = UnknownDate
                 /\ info_title = src \o date \o sep \o title \o EndingRoot(ending)

\* C12 as amended: the date is the 8 digits as YYYY-MM-DD and the title is the title group
\* with spaces for underscores exactly for the names that begin with "TheMoneyGPS_", 8
\* digits and "_" and hold ".txt" after them, the title group ending at the last ".txt";
\* for every other name, "Source_20230615_My Great Title.txt" among them, the date is
\* "Unknown Date" and the title is the name without its trailing extension.
C12_TheMoneyGPSOnly ==
    \A src \in SourceTokens, date \in DateTokens, sep \in Separators, title \in TitleTokens,
       ending \in Endings :
        ReturnedFor(src, date, sep, title, ending) =>
            IF /\ src = IndexNamePrefix /\ date \in EightDigitDates /\ sep = <<"_">>
               /\ ending \in {DotTxt, DotTxt \o <<".", "m", "d">>, DotTxt \o DotTxt}
            THEN /\ info_date = DashedDate(date)
                 /\ info_title = SpacedTitle(title) \o (IF ending = DotTxt \o DotTxt THEN DotTxt ELSE <<>>)
            ELSE /\ info_date = UnknownDate
                 /\ info_title = src \o date \o sep \o title \o EndingRoot(ending)

\* C12 witness: the function has returned 2023-06-15 and "My Great Title" for
\* "TheMoneyGPS_20230615_My_Great_Title.txt".
C12_Witness ==
    /\ info_pc = "returned"
    /\ info_filename = A_money
    /\ info_date = <<"2", "0", "2", "3", "-", "0", "6", "-", "1", "5">>
    /\ info_title = T_My_Great_Title
====
